---- MODULE Spec2Model ----
(***************************************************************************)
(* A model of proof-of-hat: one run of the script, from module load to     *)
(* process exit, in its two variants:                                      *)
(*   "schema"   - src/src/index.ts        (structured, schema-bound answer) *)
(*   "freetext" - src/unnamed/part_000    (plain answer, keyword matching)  *)
(* Strings are sequences of atoms (an atom is one character or one         *)
(* literal chunk of a template); concatenation is \o and String.includes   *)
(* is the search for a contiguous run of atoms.  A value of type           *)
(* `string | undefined` is a record [def, s].                              *)
(***************************************************************************)
EXTENDS Integers, Sequences, FiniteSets, TLC

VARIABLES variant, env, pc, exitCode, log, requests, outstanding,
          tweet, fetched, askArg, aiResp, asked, verdict

vars == <<variant, env, pc, exitCode, log, requests, outstanding,
          tweet, fetched, askArg, aiResp, asked, verdict>>

\* ------------------------------------------------------------- bounds
\* longest media list of a lookup response when only the selection is explored
MaxMedia == 2
\* longest media list of a lookup response in a whole run
MaxRunMedia == 1
\* longest errors list of a lookup response
MaxErrors == 2
\* most phrases in a free-text answer of the model
MaxWords == 1

\* ------------------------------------------------------ JavaScript values
Undef == [def |-> FALSE, s |-> <<>>]
Some(s) == [def |-> TRUE, s |-> s]
\* JavaScript truthiness of a `string | undefined`: undefined and "" are falsy
Truthy(o) == o.def /\ o.s # <<>>
\* `${x}` in a template literal
Interpolate(o) == IF o.def THEN o.s ELSE <<"undefined">>
\* String.prototype.includes
Includes(s, t) == \E i \in 0..(Len(s) - Len(t)) : SubSeq(s, i + 1, i + Len(t)) = t
\* Array.prototype.find over a list whose i-th element passes the test iff
\* tests[i]: the index of the element found (0: undefined)
FindIndex(tests) ==
  IF \E i \in 1..Len(tests) : tests[i]
  THEN CHOOSE i \in 1..Len(tests) : tests[i] /\ \A j \in 1..(i - 1) : ~tests[j]
  ELSE 0
\* `error instanceof Error ? error.message : other`
MessageOf(err, other) == IF err.isError THEN err.message ELSE other

\* ------------------------------------------------- the program's constants
TWEET_ID(v) == IF v = "schema" THEN <<"1921299860000518230">> ELSE <<"1921316529062265045">>

referenceImageUrls ==
  << <<"https://raw.githubusercontent.com/KuphJr/proof-of-hat/main/tunnl-hat-front.jpg">>,
     <<"https://raw.githubusercontent.com/KuphJr/proof-of-hat/main/tunnl-hat-side-1.jpg">>,
     <<"https://raw.githubusercontent.com/KuphJr/proof-of-hat/main/tunnl-hat-side-2.jpg">> >>

\* --------------------------------------------------- the lookup's answers
MediaTypes == {"photo", "video", "animated_gif"}
\* the attachment at position i: its url and preview are absent, empty, or a
\* URL of its own
Attachments(i) ==
  [type : MediaTypes,
   url : {Undef, Some(<<>>), Some(<<"https://pbs/url/" \o ToString(i)>>)},
   preview_image_url : {Undef, Some(<<>>), Some(<<"https://pbs/preview/" \o ToString(i)>>)}]
RECURSIVE MediaOfLen(_)
MediaOfLen(k) ==
  IF k = 0 THEN {<<>>} ELSE {Append(m, a) : m \in MediaOfLen(k - 1), a \in Attachments(k)}
MediaLists(n) == UNION {MediaOfLen(k) : k \in 0..n}
\* tweet.includes?.media : includes absent, media absent, or a list
Includes_(n) ==
  {[def |-> FALSE, media |-> [def |-> FALSE, list |-> <<>>]],
   [def |-> TRUE, media |-> [def |-> FALSE, list |-> <<>>]]}
  \cup {[def |-> TRUE, media |-> [def |-> TRUE, list |-> m]] : m \in MediaLists(n)}
\* the entry at position i of tweet.errors
ErrorEntries(i) ==
  [detail : {Undef, Some(<<>>), Some(<<"detail-" \o ToString(i)>>)},
   title : {Some(<<"title-" \o ToString(i)>>)}]
RECURSIVE ErrorsOfLen(_)
ErrorsOfLen(k) ==
  IF k = 0 THEN {<<>>} ELSE {Append(e, x) : e \in ErrorsOfLen(k - 1), x \in ErrorEntries(k)}
ErrorLists(n) == UNION {ErrorsOfLen(k) : k \in 0..n}
Errors_(n) ==
  {[def |-> FALSE, list |-> <<>>]} \cup {[def |-> TRUE, list |-> e] : e \in ErrorLists(n)}
TweetData == {[def |-> FALSE, text |-> Undef], [def |-> TRUE, text |-> Some(<<"look at my hat">>)]}
ThrownValues ==
  {[isError |-> TRUE, message |-> <<"Request failed with code 429">>],
   [isError |-> FALSE, message |-> <<>>]}
NoThrow == [isError |-> FALSE, message |-> <<>>]
\* what readOnlyTwitterClient.v2.singleTweet can answer: it throws, or resolves
\* to {data, includes, errors}
LookupOutcomes(nMedia, nErrors) ==
  {[threw |-> TRUE, err |-> t, errors |-> [def |-> FALSE, list |-> <<>>],
    data |-> [def |-> FALSE, text |-> Undef],
    includes |-> [def |-> FALSE, media |-> [def |-> FALSE, list |-> <<>>]]] : t \in ThrownValues}
  \cup [threw : {FALSE}, err : {NoThrow}, errors : Errors_(nErrors), data : TweetData,
        includes : Includes_(nMedia)]

\* ------------------------------------------------------- fetchTweetData
Line(stream, text) == [stream |-> stream, text |-> text]

\* a selection that takes the first attachment matching any of the three rules
SelectImageUrl_FirstAttachment(includes) ==
  LET media == includes.media.list
      Usable(m) == \/ m.type = "photo" /\ (Truthy(m.url) \/ Truthy(m.preview_image_url))
                   \/ m.type = "video" /\ Truthy(m.preview_image_url)
      i == FindIndex([k \in 1..Len(media) |-> Usable(media[k])])
  IN IF ~(includes.def /\ includes.media.def) \/ i = 0 THEN Undef
     ELSE IF media[i].type = "photo" /\ Truthy(media[i].url) THEN media[i].url
     ELSE media[i].preview_image_url
\* a selection whose first rule forgets the type of the attachment
SelectImageUrl_AnyType(includes) ==
  LET media == includes.media.list
      i == FindIndex([k \in 1..Len(media) |-> Truthy(media[k].url)])
      j == FindIndex([k \in 1..Len(media) |->
                        media[k].type \in {"photo", "video"}
                        /\ Truthy(media[k].preview_image_url)])
  IN IF ~(includes.def /\ includes.media.def) THEN Undef
     ELSE IF i # 0 THEN media[i].url
     ELSE IF j # 0 THEN media[j].preview_image_url
     ELSE Undef
\* the selection of the image URL over tweet.includes?.media
SelectImageUrl(includes) ==
  LET media == includes.media.list IN
  IF ~(includes.def /\ includes.media.def /\ Len(media) > 0) THEN Undef
  ELSE
    LET photoMedia ==
          FindIndex([k \in 1..Len(media) |-> media[k].type = "photo" /\ Truthy(media[k].url)])
        photoPreviewMedia ==
          FindIndex([k \in 1..Len(media) |->
                       media[k].type = "photo" /\ Truthy(media[k].preview_image_url)])
        videoMediaWithPreview ==
          FindIndex([k \in 1..Len(media) |->
                       media[k].type = "video" /\ Truthy(media[k].preview_image_url)])
    IN IF photoMedia # 0 /\ Truthy(media[photoMedia].url) THEN media[photoMedia].url
       ELSE IF photoPreviewMedia # 0 /\ Truthy(media[photoPreviewMedia].preview_image_url)
            THEN media[photoPreviewMedia].preview_image_url
       ELSE IF videoMediaWithPreview # 0
               /\ Truthy(media[videoMediaWithPreview].preview_image_url)
            THEN media[videoMediaWithPreview].preview_image_url
       ELSE Undef

\* the detail taken from the last entry of the list
ErrorDetail_Last(errors) ==
  IF Truthy(errors[Len(errors)].detail) THEN errors[Len(errors)].detail
  ELSE errors[Len(errors)].title
\* tweet.errors[0].detail || tweet.errors[0].title
ErrorDetail(errors) ==
  IF Truthy(errors[1].detail) THEN errors[1].detail ELSE errors[1].title

\* a try block that treats a missing image as an error too
TryBlockThrows_NoImage(r) ==
  IF r.threw THEN [threw |-> TRUE, err |-> r.err]
  ELSE IF r.errors.def /\ Len(r.errors.list) > 0
  THEN [threw |-> TRUE,
        err |-> [isError |-> TRUE,
                 message |-> <<"Failed to fetch tweet: ">>
                             \o Interpolate(ErrorDetail(r.errors.list))]]
  ELSE IF ~r.data.def
  THEN [threw |-> TRUE,
        err |-> [isError |-> TRUE, message |-> <<"Tweet data not found in API response.">>]]
  ELSE IF ~Truthy(SelectImageUrl(r.includes))
  THEN [threw |-> TRUE, err |-> [isError |-> TRUE, message |-> <<"No usable image.">>]]
  ELSE [threw |-> FALSE, err |-> NoThrow]
\* what the try block throws, as an Error value, for a lookup outcome r
\* (isError FALSE with an empty message: nothing is thrown)
TryBlockThrows(r) ==
  IF r.threw THEN [threw |-> TRUE, err |-> r.err]
  ELSE IF r.errors.def /\ Len(r.errors.list) > 0
  THEN [threw |-> TRUE,
        err |-> [isError |-> TRUE,
                 message |-> <<"Failed to fetch tweet: ">>
                             \o Interpolate(ErrorDetail(r.errors.list))]]
  ELSE IF ~r.data.def
  THEN [threw |-> TRUE,
        err |-> [isError |-> TRUE, message |-> <<"Tweet data not found in API response.">>]]
  ELSE [threw |-> FALSE, err |-> NoThrow]

\* fetchTweetData(tweetId) once the lookup has answered r: the outcome and
\* the lines it logs after the call
FetchTweetData(tweetId, r) ==
  LET t == TryBlockThrows(r) IN
  IF t.threw
  THEN LET message == MessageOf(t.err, <<"Unknown error">>) IN
       [done |-> TRUE, threw |-> TRUE,
        message |-> <<"Failed to process tweet ">> \o tweetId \o <<": ">> \o message,
        imageUrl |-> Undef, text |-> Undef,
        lines |-> (IF ~r.threw /\ r.errors.def /\ Len(r.errors.list) > 0
                   THEN <<Line("stderr", <<"Error fetching tweet:">>
                                          \o Interpolate(ErrorDetail(r.errors.list)))>>
                   ELSE <<>>)
                  \o <<Line("stderr", <<"Error fetching or processing tweet ">> \o tweetId
                                      \o <<" from API:">> \o message)>>]
  ELSE LET imageUrl == SelectImageUrl(r.includes) IN
       [done |-> TRUE, threw |-> FALSE, message |-> <<>>,
        imageUrl |-> imageUrl, text |-> r.data.text,
        lines |-> IF ~Truthy(imageUrl)
                  THEN <<Line("stderr", <<"Tweet ">> \o tweetId
                           \o <<" does not appear to contain a usable image URL (photo or video thumbnail).">>)>>
                  ELSE <<>>]

\* ------------------------------------------------- module initialisation
EnvValues == {"absent", "empty", "set"}
\* !process.env.X
Missing(x) == x \in {"absent", "empty"}
OpenAIKeyLine ==
  Line("stderr", <<"Error: ", "OPENAI_API_KEY", " is not set in the .env file.">>)
TwitterTokenLine ==
  Line("stderr", <<"Error: ", "TWITTER_BEARER_TOKEN",
                   " is not set in the .env file. This is required to fetch tweet data.">>)
\* the uncaught error of `new OpenAI({apiKey: undefined})`, when the client
\* library refuses an undefined key
ConstructorLine ==
  Line("stderr", <<"The ", "OPENAI_API_KEY", " environment variable is missing or empty">>)
\* the checks without the one of the bearer token
CheckSecrets_KeyOnly(e) ==
  IF Missing(e.OPENAI_API_KEY) THEN [exit |-> TRUE, code |-> 1, lines |-> <<OpenAIKeyLine>>]
  ELSE [exit |-> FALSE, code |-> 0, lines |-> <<>>]
\* the two checks of the secrets, each followed by process.exit(1)
CheckSecrets(e) ==
  IF Missing(e.OPENAI_API_KEY) THEN [exit |-> TRUE, code |-> 1, lines |-> <<OpenAIKeyLine>>]
  ELSE IF Missing(e.TWITTER_BEARER_TOKEN)
  THEN [exit |-> TRUE, code |-> 1, lines |-> <<TwitterTokenLine>>]
  ELSE [exit |-> FALSE, code |-> 0, lines |-> <<>>]
\* the top-level statements of the module up to the call of main().  In the
\* free-text variant the inference client is constructed before the checks;
\* ctorThrows: whether the constructor throws on an undefined key.
ModuleInitOutcome(v, e, ctorThrows) ==
  IF v = "freetext" /\ e.OPENAI_API_KEY = "absent" /\ ctorThrows
  THEN [exit |-> TRUE, code |-> 1, lines |-> <<ConstructorLine>>]
  ELSE CheckSecrets(e)

\* -------------------------------------------------- askOpenAIAboutImage
systemPrompt == <<"You are a vision model that analyzes images ...">>
userPrompt == <<"The first 3 images are reference photos ... Only output the JSON object.">>
question == <<"Does this picture contain a black baseball hat with a \"tunnl\" logo on it? ...">>
TextPart(type, text) == [type |-> type, text |-> text, url |-> <<>>]
ImagePart(url) == [type |-> "image_url", text |-> <<>>, url |-> url]
\* referenceImageUrls.map(imageUrl => ({type: "image_url", image_url: {url: imageUrl}}))
referenceImageMessages == [i \in 1..Len(referenceImageUrls) |-> ImagePart(referenceImageUrls[i])]
\* the one request askOpenAIAboutImage(imageUrl) sends
AskRequest(v, imageUrl) ==
  IF v = "schema"
  THEN [api |-> "chat.completions.parse", model |-> "gpt-4o", temperature |-> 0,
        format |-> "response",
        messages |-> << [role |-> "system", content |-> <<TextPart("text", systemPrompt)>>],
                        [role |-> "user",
                         content |-> <<TextPart("text", userPrompt)>>
                                     \o referenceImageMessages \o <<ImagePart(imageUrl)>>] >>]
  ELSE [api |-> "responses.create", model |-> "gpt-4o", temperature |-> 0,
        format |-> "response",
        messages |-> << [role |-> "user", content |-> <<TextPart("input_text", question)>>] >>]

NoParsed == [def |-> FALSE, result |-> FALSE, reasoning |-> <<>>]
\* result.choices[0]?.message?.parsed  /  response.choices[0]?.message?.content
FirstMessage(choices) ==
  IF Len(choices) = 0 \/ ~choices[1].message.def
  THEN [parsed |-> NoParsed, content |-> Undef]
  ELSE [parsed |-> choices[1].message.parsed, content |-> choices[1].message.content]
\* askOpenAIAboutImage once the inference call has answered r.  Reading
\* `.choices[0]` of an answer without `choices` is a TypeError inside the try.
AskOpenAIAboutImage(v, r) ==
  LET err == IF r.threw THEN r.err
             ELSE [isError |-> TRUE,
                   message |-> <<"Cannot read properties of undefined (reading '0')">>]
  IN IF r.threw \/ ~r.choices.def
     THEN [done |-> TRUE, threw |-> TRUE,
           message |-> <<"Failed to get response from OpenAI about the image. ">>
                       \o MessageOf(err, <<>>),
           parsed |-> NoParsed, content |-> Undef,
           lines |-> <<Line("stderr", <<"Error asking OpenAI:">> \o MessageOf(err, <<"[value]">>))>>]
     ELSE LET m == FirstMessage(r.choices.list) IN
          [done |-> TRUE, threw |-> FALSE, message |-> <<>>,
           parsed |-> IF v = "schema" THEN m.parsed ELSE NoParsed,
           content |-> IF v = "freetext" THEN m.content ELSE Undef,
           lines |-> <<>>]

\* ------------------------------------------- the free-text verdict (main)
\* String.prototype.toLowerCase, character by character
LowerChar(c) ==
  CASE c = "A" -> "a"
    [] c = "B" -> "b"
    [] c = "C" -> "c"
    [] c = "D" -> "d"
    [] c = "E" -> "e"
    [] c = "F" -> "f"
    [] c = "G" -> "g"
    [] c = "H" -> "h"
    [] c = "I" -> "i"
    [] c = "J" -> "j"
    [] c = "K" -> "k"
    [] c = "L" -> "l"
    [] c = "M" -> "m"
    [] c = "N" -> "n"
    [] c = "O" -> "o"
    [] c = "P" -> "p"
    [] c = "Q" -> "q"
    [] c = "R" -> "r"
    [] c = "S" -> "s"
    [] c = "T" -> "t"
    [] c = "U" -> "u"
    [] c = "V" -> "v"
    [] c = "W" -> "w"
    [] c = "X" -> "x"
    [] c = "Y" -> "y"
    [] c = "Z" -> "z"
    [] OTHER -> c
ToLowerCase(s) == [i \in 1..Len(s) |-> LowerChar(s[i])]
positiveKeywords ==
  << <<"y", "e", "s">>,
     <<"i", "t", " ", "d", "o", "e", "s">>,
     <<"s", "h", "o", "w", "s", " ", "a", " ", "b", "l", "a", "c", "k", " ", "b", "a", "s", "e", "b", "a", "l", "l", " ", "h", "a", "t">> >>
negativeKeywords ==
  << <<"n", "o">>,
     <<"i", "t", " ", "d", "o", "e", "s", " ", "n", "o", "t">>,
     <<"d", "o", "e", "s", " ", "n", "o", "t", " ", "s", "h", "o", "w">> >>
\* keywords.some(keyword => responseLower.includes(keyword))
SomeIncluded(keywords, responseLower) ==
  \E k \in 1..Len(keywords) : Includes(responseLower, keywords[k])
\* `result` of main: "true", "false", or "undefined" when no branch assigns it
KeywordResult(openAIResponse) ==
  LET responseLower == ToLowerCase(openAIResponse) IN
  IF SomeIncluded(positiveKeywords, responseLower) THEN "true"
  ELSE IF SomeIncluded(negativeKeywords, responseLower) THEN "false"
  ELSE "undefined"

\* the phrases the free-text answers of the model are made of
Phrases ==
  { <<"Y", "e", "s">>,
    <<"N", "o">>,
    <<"I", "t", " ", "d", "o", "e", "s">>,
    <<"I", "t", " ", "d", "o", "e", "s", " ", "n", "o", "t">>,
    <<"d", "o", "e", "s", " ", "n", "o", "t", " ", "s", "h", "o", "w">>,
    <<"s", "h", "o", "w", "s", " ", "a", " ", "b", "l", "a", "c", "k", " ", "b", "a", "s", "e", "b", "a", "l", "l", " ", "h", "a", "t">>,
    <<"U", "n", "c", "l", "e", "a", "r">>,
    <<"I", " ", "c", "a", "n", "n", "o", "t", " ", "t", "e", "l", "l">> }
RECURSIVE Answers(_)
\* the answers of at most n phrases, joined by single spaces
Answers(n) ==
  IF n = 0 THEN {<<>>}
  ELSE Answers(n - 1) \cup Phrases
       \cup {a \o <<" ">> \o ph : a \in Answers(n - 1) \ {<<>>}, ph \in Phrases}

\* ------------------------------------------------- the inference answers
ParsedObjects ==
  [def : {TRUE}, result : BOOLEAN,
   reasoning : {<<"hat visible on subject's head">>, <<"no hat in the image">>}]
NoMessage == [def |-> FALSE, parsed |-> NoParsed, content |-> Undef]
\* the message of a choice: absent, or with its parsed object / its content
\* present or null
Messages(v) ==
  {NoMessage, [def |-> TRUE, parsed |-> NoParsed, content |-> Undef]}
  \cup (IF v = "schema"
        THEN {[def |-> TRUE, parsed |-> o, content |-> Undef] : o \in ParsedObjects}
        ELSE {[def |-> TRUE, parsed |-> NoParsed, content |-> Some(a)] : a \in Answers(MaxWords)})
\* a later choice, which the code never reads
OtherChoice(v) ==
  [message |-> IF v = "schema"
               THEN [def |-> TRUE,
                     parsed |-> [def |-> TRUE, result |-> TRUE, reasoning |-> <<"second choice">>],
                     content |-> Undef]
               ELSE [def |-> TRUE, parsed |-> NoParsed, content |-> Some(positiveKeywords[1])]]
NoChoices == [def |-> FALSE, list |-> <<>>]
AiThrownValues ==
  {[isError |-> TRUE, message |-> <<"429 Rate limit reached">>],
   [isError |-> FALSE, message |-> <<>>]}
\* what the inference call can answer: it throws, or resolves to an object
\* whose `choices` is absent or a list
AiOutcomes(v) ==
  {[threw |-> TRUE, err |-> t, choices |-> NoChoices] : t \in AiThrownValues}
  \cup {[threw |-> FALSE, err |-> NoThrow, choices |-> NoChoices],
        [threw |-> FALSE, err |-> NoThrow, choices |-> [def |-> TRUE, list |-> <<>>]]}
  \cup {[threw |-> FALSE, err |-> NoThrow,
         choices |-> [def |-> TRUE, list |-> <<[message |-> m]>> \o rest]] :
          m \in Messages(v), rest \in {<<>>, <<OtherChoice(v)>>}}

\* ------------------------------------------------------------------ main
NoVerdict == [kind |-> "none", printed |-> NoParsed]
ResultLine(text) ==
  Line("stdout", <<"Result for \"Does the image contain a black baseball hat with white lettering?\": ">>
                 \o text)
\* the catch block of main for an Error with this message
MainCatch(v, errorMessage) ==
  IF v = "schema"
  THEN [exit |-> TRUE, code |-> 1,
        lines |-> <<Line("stderr", <<"Error in main execution:">> \o errorMessage)>>,
        verdict |-> NoVerdict]
  ELSE [exit |-> TRUE, code |-> 0,
        lines |-> <<Line("stderr", <<"Error in main execution:">> \o errorMessage),
                    ResultLine(<<"false (due to error: ">> \o errorMessage \o <<")">>)>>,
        verdict |-> [kind |-> "error", printed |-> NoParsed]]
\* main without its test of tweetData.imageUrl
MainAfterFetch_NoImageTest(v, f) ==
  IF f.threw THEN [ask |-> FALSE, arg |-> Undef] @@ MainCatch(v, f.message)
  ELSE [ask |-> TRUE, arg |-> f.imageUrl, exit |-> FALSE, code |-> 0,
        lines |-> <<>>, verdict |-> NoVerdict]
\* main from the return of fetchTweetData (outcome f) to the call of
\* askOpenAIAboutImage, or to the end of the run
MainAfterFetch(v, f) ==
  IF f.threw THEN [ask |-> FALSE, arg |-> Undef] @@ MainCatch(v, f.message)
  ELSE LET shown == IF v = "schema"
                    THEN <<Line("stdout", <<"Image URL: ">> \o Interpolate(f.imageUrl))>>
                    ELSE <<>>
       IN IF ~Truthy(f.imageUrl)
          THEN LET c == MainCatch(v, <<"No image URL found for Tweet ID: ">> \o TWEET_ID(v) \o <<".">>)
               IN [ask |-> FALSE, arg |-> Undef, exit |-> c.exit, code |-> c.code,
                   lines |-> shown \o c.lines, verdict |-> c.verdict]
          ELSE [ask |-> TRUE, arg |-> f.imageUrl, exit |-> FALSE, code |-> 0,
                lines |-> shown, verdict |-> NoVerdict]
\* main from the return of askOpenAIAboutImage (outcome a) to the end of the run
MainAfterAsk(v, a) ==
  IF a.threw THEN MainCatch(v, a.message)
  ELSE IF v = "schema"
  THEN [exit |-> TRUE, code |-> 0,
        lines |-> <<Line("stdout", IF a.parsed.def THEN <<"{result, reasoning}">>
                                   ELSE <<"undefined">>)>>,
        verdict |-> [kind |-> "object", printed |-> a.parsed]]
  ELSE IF Truthy(a.content)
  THEN LET result == KeywordResult(a.content.s) IN
       [exit |-> TRUE, code |-> 0,
        lines |-> <<Line("stdout", <<"OpenAI Response:">> \o a.content.s)>>
                  \o (IF result # "undefined"
                      THEN <<Line("stdout", <<"Does the image contain a black baseball hat with white lettering? ", result>>)>>
                      ELSE <<Line("stdout", <<"Could not definitively determine the answer from OpenAI's response.">>),
                             Line("stdout", <<"Full OpenAI response:">> \o a.content.s),
                             Line("stdout", <<"Assuming 'false' due to ambiguous response for: Does the image contain a black baseball hat with white lettering?">>)>>),
        verdict |-> [kind |-> IF result = "undefined" THEN "ambiguous" ELSE result,
                     printed |-> NoParsed]]
  ELSE [exit |-> TRUE, code |-> 0,
        lines |-> <<Line("stdout", <<"OpenAI did not provide a response.">>),
                    ResultLine(<<"false (no OpenAI response)">>)>>,
        verdict |-> [kind |-> "noResponse", printed |-> NoParsed]]

\* ------------------------------------------------------------ the run
Variants == {"schema", "freetext"}
Envs == [OPENAI_API_KEY : EnvValues, TWITTER_BEARER_TOKEN : EnvValues]
NoAsk == [api |-> "", model |-> "", temperature |-> 0, format |-> "", messages |-> <<>>]
\* readOnlyTwitterClient.v2.singleTweet(tweetId, {expansions, 'media.fields'})
LookupRequest(tweetId) ==
  [kind |-> "lookup", tweetId |-> tweetId, expansions |-> <<"attachments.media_keys">>,
   fields |-> <<"url", "type", "preview_image_url">>, ask |-> NoAsk]
InferenceRequest(v, imageUrl) ==
  [kind |-> "inference", tweetId |-> <<>>, expansions |-> <<>>, fields |-> <<>>,
   ask |-> AskRequest(v, imageUrl.s)]
NoTweet ==
  [done |-> FALSE, threw |-> FALSE, err |-> NoThrow, errors |-> [def |-> FALSE, list |-> <<>>],
   data |-> [def |-> FALSE, text |-> Undef],
   includes |-> [def |-> FALSE, media |-> [def |-> FALSE, list |-> <<>>]]]
NotFetched ==
  [done |-> FALSE, threw |-> FALSE, message |-> <<>>, imageUrl |-> Undef, text |-> Undef,
   lines |-> <<>>]
NoAi == [done |-> FALSE, threw |-> FALSE, err |-> NoThrow, choices |-> NoChoices]
NotAsked ==
  [done |-> FALSE, threw |-> FALSE, message |-> <<>>, parsed |-> NoParsed, content |-> Undef,
   lines |-> <<>>]

Init ==
  /\ variant \in Variants
  /\ env \in Envs
  /\ pc = "load"
  /\ exitCode = -1
  /\ log = <<>>
  /\ requests = <<>>
  /\ outstanding = 0
  /\ tweet = NoTweet
  /\ fetched = NotFetched
  /\ askArg = Undef
  /\ aiResp = NoAi
  /\ asked = NotAsked
  /\ verdict = NoVerdict

\* The module is loaded: its top-level statements run, and main() runs up to
\* its first await, inside fetchTweetData, with the lookup issued.
Load ==
  /\ pc = "load"
  /\ \E ctorThrows \in BOOLEAN :
       LET o == ModuleInitOutcome(variant, env, ctorThrows) IN
       IF o.exit
       THEN /\ pc' = "exited"
            /\ exitCode' = o.code
            /\ log' = log \o o.lines
            /\ UNCHANGED <<requests, outstanding>>
       ELSE /\ pc' = "awaitLookup"
            /\ exitCode' = exitCode
            /\ log' = log \o o.lines
                      \o <<Line("stdout", <<"Processing Tweet ID: ">> \o TWEET_ID(variant)),
                           Line("stdout", <<"Fetching tweet from Twitter API: ">>
                                          \o TWEET_ID(variant))>>
            /\ requests' = Append(requests, LookupRequest(TWEET_ID(variant)))
            /\ outstanding' = outstanding + 1
  /\ UNCHANGED <<variant, env, tweet, fetched, askArg, aiResp, asked, verdict>>

\* The lookup answers with one of `outcomes`: fetchTweetData runs to its end
\* and main runs on to its next await (the inference call issued) or to the
\* end of the run.
LookupReturns(outcomes) ==
  /\ pc = "awaitLookup"
  /\ \E r \in outcomes :
       LET f == FetchTweetData(TWEET_ID(variant), r)
           m == MainAfterFetch(variant, f)
       IN /\ tweet' = [done |-> TRUE] @@ r
          /\ fetched' = f
          /\ log' = log \o f.lines \o m.lines
          /\ verdict' = m.verdict
          /\ IF m.ask
             THEN /\ pc' = "awaitInference"
                  /\ askArg' = m.arg
                  /\ requests' = Append(requests, InferenceRequest(variant, m.arg))
                  /\ outstanding' = outstanding
                  /\ exitCode' = exitCode
             ELSE /\ pc' = "exited"
                  /\ askArg' = askArg
                  /\ requests' = requests
                  /\ outstanding' = outstanding - 1
                  /\ exitCode' = m.code
  /\ UNCHANGED <<variant, env, aiResp, asked>>

\* The inference call answers: askOpenAIAboutImage runs to its end and main
\* prints and ends the run.
InferenceReturns ==
  /\ pc = "awaitInference"
  /\ \E r \in AiOutcomes(variant) :
       LET a == AskOpenAIAboutImage(variant, r)
           m == MainAfterAsk(variant, a)
       IN /\ aiResp' = [done |-> TRUE] @@ r
          /\ asked' = a
          /\ log' = log \o a.lines \o m.lines
          /\ verdict' = m.verdict
          /\ exitCode' = m.code
  /\ pc' = "exited"
  /\ outstanding' = outstanding - 1
  /\ UNCHANGED <<variant, env, requests, tweet, fetched, askArg>>

RunOutcomes == LookupOutcomes(MaxRunMedia, MaxErrors)
Next == Load \/ LookupReturns(RunOutcomes) \/ InferenceReturns
Spec == Init /\ [][Next]_vars

\* The run up to the return of fetchTweetData, over every media list of at
\* most MaxMedia attachments, in a lookup answer that carries a tweet.
SelectOutcomes ==
  [threw : {FALSE}, err : {NoThrow}, errors : {[def |-> FALSE, list |-> <<>>]},
   data : {d \in TweetData : d.def}, includes : Includes_(MaxMedia)]
NextSelect == Load \/ LookupReturns(SelectOutcomes)
SpecSelect == Init /\ [][NextSelect]_vars

\* ==================================================================
\* The claims
\* ==================================================================
\* the media list the lookup answered with (empty when absent)
MediaOfTweet ==
  IF tweet.includes.def /\ tweet.includes.media.def THEN tweet.includes.media.list ELSE <<>>
Returned == fetched.done /\ ~fetched.threw
Rule1(m) == m.type = "photo" /\ m.url.def /\ m.url.s # <<>>
Rule2(m) == m.type = "photo" /\ m.preview_image_url.def /\ m.preview_image_url.s # <<>>
Rule3(m) == m.type = "video" /\ m.preview_image_url.def /\ m.preview_image_url.s # <<>>
Matching1 == {i \in 1..Len(MediaOfTweet) : Rule1(MediaOfTweet[i])}
Matching2 == {i \in 1..Len(MediaOfTweet) : Rule2(MediaOfTweet[i])}
Matching3 == {i \in 1..Len(MediaOfTweet) : Rule3(MediaOfTweet[i])}
Least(S) == CHOOSE i \in S : \A j \in S : i <= j

\* C1: when fetchTweetData returns, imageUrl is the url of the first photo
\* with a non-empty url; failing that the preview_image_url of the first
\* photo with a non-empty preview; failing that the preview_image_url of the
\* first video with a non-empty preview; failing that it is absent.  A rule
\* of lower number wins whatever the positions of the attachments.
C1_SelectionPrecedence ==
  Returned =>
    IF Matching1 # {} THEN fetched.imageUrl = MediaOfTweet[Least(Matching1)].url
    ELSE IF Matching2 # {}
    THEN fetched.imageUrl = MediaOfTweet[Least(Matching2)].preview_image_url
    ELSE IF Matching3 # {}
    THEN fetched.imageUrl = MediaOfTweet[Least(Matching3)].preview_image_url
    ELSE ~fetched.imageUrl.def
\* a photo with a direct url, in second place, wins over a first photo that
\* has only a preview
C1_Witness ==
  /\ Returned
  /\ Len(MediaOfTweet) = 2
  /\ Rule2(MediaOfTweet[1]) /\ ~Rule1(MediaOfTweet[1])
  /\ Rule1(MediaOfTweet[2])
  /\ fetched.imageUrl = MediaOfTweet[2].url

\* C2: an imageUrl that fetchTweetData returns is a non-empty string and is
\* the url of a photo, or the preview_image_url of a photo or a video, of the
\* media list of the lookup's answer.
C2_UrlFromResponse ==
  (Returned /\ fetched.imageUrl.def) =>
    /\ fetched.imageUrl.s # <<>>
    /\ \E i \in 1..Len(MediaOfTweet) :
         \/ MediaOfTweet[i].type = "photo" /\ MediaOfTweet[i].url = fetched.imageUrl
         \/ MediaOfTweet[i].type \in {"photo", "video"}
            /\ MediaOfTweet[i].preview_image_url = fetched.imageUrl
\* a video's preview is returned although an attachment that is no photo
\* carries a direct url
C2_Witness ==
  /\ Returned /\ fetched.imageUrl.def
  /\ \E i \in 1..Len(MediaOfTweet) :
       MediaOfTweet[i].type # "photo" /\ Truthy(MediaOfTweet[i].url)
  /\ \E i \in 1..Len(MediaOfTweet) :
       MediaOfTweet[i].type = "video" /\ MediaOfTweet[i].preview_image_url = fetched.imageUrl

HasErrors == tweet.errors.def /\ Len(tweet.errors.list) > 0
Warned ==
  \E i \in 1..Len(log) :
    /\ log[i].stream = "stderr"
    /\ Includes(log[i].text,
         <<" does not appear to contain a usable image URL (photo or video thumbnail).">>)
NoUsableAttachment == Matching1 \cup Matching2 \cup Matching3 = {}

\* C3: fetchTweetData throws exactly when the lookup throws, or its answer
\* carries a non-empty errors list, or it carries no tweet data; when it
\* returns and no attachment matches a rule (media absent, empty, or without
\* a usable attachment), imageUrl is undefined and a warning is logged.
C3_ThrowsExactly ==
  fetched.done =>
    /\ fetched.threw <=> (tweet.threw \/ HasErrors \/ ~tweet.data.def)
    /\ (~fetched.threw /\ NoUsableAttachment) => (~fetched.imageUrl.def /\ Warned)
\* a tweet whose only attachment is no photo and no video: returned, no image
C3_Witness ==
  /\ Returned
  /\ Len(MediaOfTweet) = 1 /\ MediaOfTweet[1].type = "animated_gif"
  /\ ~fetched.imageUrl.def
  /\ Warned

\* the detail of the first entry of the errors list, or its title when the
\* detail is absent or empty
FirstDetail ==
  LET e == tweet.errors.list[1] IN
  IF e.detail.def /\ e.detail.s # <<>> THEN e.detail.s ELSE e.title.s

\* C4: when the lookup's answer carries a non-empty errors list,
\* fetchTweetData throws, and the message of the error its catch block
\* rethrows contains the first entry's detail (its title when the detail is
\* absent or empty), whatever the later entries and whether or not tweet
\* data is present.
C4_FirstErrorDetail ==
  (tweet.done /\ ~tweet.threw /\ HasErrors /\ fetched.done) =>
    /\ fetched.threw
    /\ Includes(fetched.message, FirstDetail)
\* two entries with different details, tweet data present as well
C4_Witness ==
  /\ fetched.done /\ fetched.threw /\ ~tweet.threw
  /\ tweet.data.def
  /\ tweet.errors.def /\ Len(tweet.errors.list) = 2
  /\ Truthy(tweet.errors.list[1].detail) /\ Truthy(tweet.errors.list[2].detail)
  /\ Includes(fetched.message, tweet.errors.list[1].detail.s)

MissingSecrets ==
  {n \in {"OPENAI_API_KEY", "TWITTER_BEARER_TOKEN"} : Missing(env[n])}
NamesMissingSecret ==
  \E i \in 1..Len(log) :
    log[i].stream = "stderr" /\ \E n \in MissingSecrets : Includes(log[i].text, <<n>>)

\* C5: with a required secret missing, no request is ever issued, the run
\* never gets past the loading of the module, and it ends with exit code 1
\* and a message on stderr that names a missing secret.
C5_NoCallWithoutSecrets ==
  MissingSecrets # {} =>
    /\ requests = <<>> /\ outstanding = 0
    /\ pc \in {"load", "exited"}
    /\ pc = "exited" => (exitCode = 1 /\ NamesMissingSecret)
\* the run ended for the bearer token alone
C5_Witness ==
  /\ pc = "exited" /\ exitCode = 1
  /\ env.OPENAI_API_KEY = "set" /\ env.TWITTER_BEARER_TOKEN = "absent"
  /\ requests = <<>>
  /\ NamesMissingSecret

NoImage == fetched.done /\ ~fetched.threw /\ ~Truthy(fetched.imageUrl)
Failed ==
  MissingSecrets # {} \/ (fetched.done /\ fetched.threw) \/ NoImage
  \/ (asked.done /\ asked.threw)

\* C6: a run ends with exit code 1 when configuration is missing, the tweet
\* is unresolved, the image URL is absent or the verifier fails, and with 0
\* only on normal completion.
C6_ExitCodes ==
  pc = "exited" => (exitCode = 1 <=> Failed) /\ (exitCode = 0 <=> ~Failed)

FirstParsed ==
  IF aiResp.choices.def /\ Len(aiResp.choices.list) > 0
     /\ aiResp.choices.list[1].message.def
  THEN aiResp.choices.list[1].message.parsed
  ELSE NoParsed

\* C7: (schema variant) askOpenAIAboutImage either throws an error whose
\* message is the context 'Failed to get response from OpenAI about the
\* image' followed by the underlying message, or returns a present object,
\* the parsed object of the answer's first choice; it never returns an
\* absent value.
C7_ThrowsOrReturnsObject ==
  (variant = "schema" /\ asked.done) =>
    \/ /\ asked.threw
       /\ Includes(asked.message, <<"Failed to get response from OpenAI about the image. ">>)
    \/ /\ ~asked.threw
       /\ asked.parsed.def
       /\ asked.parsed = FirstParsed

Count(kind) == Cardinality({i \in 1..Len(requests) : requests[i].kind = kind})
InferenceIssued == \E i \in 1..Len(requests) : requests[i].kind = "inference"
Printed == verdict.kind \in {"object", "true", "false", "ambiguous", "noResponse"}

\* C8: at most one remote call is outstanding; each of the two calls is
\* issued at most once; the inference request is issued only after the
\* lookup has answered and fetchTweetData has returned a non-empty imageUrl,
\* and it is made for exactly that URL; the verdict is printed only after
\* askOpenAIAboutImage has returned.
C8_ResolveVerifyPrint ==
  /\ outstanding \in {0, 1}
  /\ Count("lookup") <= 1 /\ Count("inference") <= 1
  /\ InferenceIssued =>
       /\ Len(requests) = 2 /\ requests[1].kind = "lookup" /\ requests[2].kind = "inference"
       /\ tweet.done /\ Returned
       /\ fetched.imageUrl.def /\ fetched.imageUrl.s # <<>>
       /\ askArg = fetched.imageUrl
       /\ variant = "schema" =>
            LET c == requests[2].ask.messages[2].content IN c[Len(c)].url = fetched.imageUrl.s
  /\ pc = "awaitLookup" => (outstanding = 1 /\ ~InferenceIssued /\ ~tweet.done)
  /\ pc = "awaitInference" => (outstanding = 1 /\ InferenceIssued /\ ~asked.done)
  /\ asked.done => InferenceIssued
  /\ Printed => (asked.done /\ ~asked.threw /\ pc = "exited" /\ outstanding = 0)
\* a whole run of the schema variant: both calls made, the answer printed
C8_Witness ==
  /\ pc = "exited" /\ variant = "schema"
  /\ Len(requests) = 2
  /\ verdict.kind = "object" /\ verdict.printed.def
  /\ askArg = fetched.imageUrl

\* C9: the content of every inference request is, in this order: the system
\* instruction, the user instruction text, the 3 reference image URLs in
\* their declared order, and the candidate URL as the last visual input.
C9_RequestOrder ==
  \A i \in 1..Len(requests) :
    requests[i].kind = "inference" =>
      LET ms == requests[i].ask.messages IN
      /\ Len(ms) = 2
      /\ ms[1].role = "system" /\ ms[1].content = <<TextPart("text", systemPrompt)>>
      /\ ms[2].role = "user"
      /\ Len(ms[2].content) = 5
      /\ ms[2].content[1].type = "text"
      /\ \A k \in 1..3 : ms[2].content[k + 1] = ImagePart(referenceImageUrls[k])
      /\ ms[2].content[5] = ImagePart(askArg.s)

NegativeAnswers == {negativeKeywords[k] : k \in 1..Len(negativeKeywords)}
AnyKeyword(low) == SomeIncluded(positiveKeywords, low) \/ SomeIncluded(negativeKeywords, low)

\* C10: (free-text variant) for a non-empty answer, lower-cased: a positive
\* keyword gives true, a negative keyword false, and the ambiguous outcome
\* arises only when no keyword occurs; an answer that is one of the negative
\* keywords is classified false; the ambiguous and empty cases end the run
\* with exit code 0.
C10_KeywordVerdict ==
  (variant = "freetext" /\ asked.done /\ ~asked.threw) =>
    IF Truthy(asked.content)
    THEN LET low == ToLowerCase(asked.content.s) IN
         /\ verdict.kind \in {"true", "false", "ambiguous"}
         /\ verdict.kind = "ambiguous" <=> ~AnyKeyword(low)
         /\ verdict.kind = "true" => SomeIncluded(positiveKeywords, low)
         /\ verdict.kind = "false" => SomeIncluded(negativeKeywords, low)
         /\ low \in NegativeAnswers => verdict.kind = "false"
         /\ verdict.kind = "ambiguous" => exitCode = 0
    ELSE verdict.kind = "noResponse" /\ exitCode = 0

====
